---- MODULE Spec2Model ----
(***************************************************************************)
(* glsl-repl: src/src/App.tsx.  run(shader) compiles a fragment shader     *)
(* against the fixed QuadVertexShader, draws a quad into a 1x1 RGBA32F     *)
(* target and returns the pixel as a string, or a diagnostic.  The App     *)
(* component calls run from an effect whenever the shader text changes.    *)
(*                                                                         *)
(* Channel values are counted in quarters (4 = 1.0), all of which a        *)
(* Float32Array holds exactly.  Of a 128x128 texture only texel (0,0) is   *)
(* kept: it is the only texel the 1x1 draw of the shaders here can read.   *)
(* The WebGL2 backend is the environment: whether it hands out a context,  *)
(* an extension or an object, and what its logs say, is chosen with \E.    *)
(***************************************************************************)
EXTENDS Integers, Sequences, FiniteSets, TLC

\* how many times the effect may call run() in one behaviour
MaxRuns == 2

-----------------------------------------------------------------------------
(* JavaScript values *)

\* string | null, as returned by getShaderInfoLog / getProgramInfoLog
None == <<>>
Some(s) == <<s>>

\* a || b for a of type string | null: b when a is null or ''
OrElse_NoFallback(a, b) == IF a = None THEN "" ELSE a[1]
OrElse(a, b) == IF a = None \/ a = Some("") THEN b ELSE a[1]

\* type Result<T>
Ok(v) == [result |-> "ok", value |-> v, message |-> ""]
Err(m) == [result |-> "err", value |-> 0, message |-> m]
NoResult == [result |-> "none", value |-> 0, message |-> ""]

DigitString(d) ==
  CASE d = 0 -> "0" [] d = 1 -> "1" [] d = 2 -> "2" [] d = 3 -> "3"
    [] d = 4 -> "4" [] d = 5 -> "5" [] d = 6 -> "6" [] d = 7 -> "7"
    [] d = 8 -> "8" [] d = 9 -> "9"

RECURSIVE NatToString(_)
NatToString(n) ==
  IF n < 10 THEN DigitString(n)
  ELSE NatToString(n \div 10) \o DigitString(n % 10)

\* '' + x for a non-negative x given in quarters: shortest decimal form
NumToString(q) ==
  NatToString(q \div 4) \o
  (CASE q % 4 = 0 -> "" [] q % 4 = 1 -> ".25" [] q % 4 = 2 -> ".5" [] q % 4 = 3 -> ".75")

\* Array.from(data).map(x => '' + x).join(', ')
RECURSIVE JoinFrom(_, _)
JoinFrom(data, i) ==
  IF i > Len(data) THEN ""
  ELSE IF i = Len(data) THEN NumToString(data[i])
  ELSE NumToString(data[i]) \o ", " \o JoinFrom(data, i + 1)
FormatResult(data) == JoinFrom(data, 1)

-----------------------------------------------------------------------------
(* Shader texts.  A fragment source is described by what the GLSL ES 3.00  *)
(* compiler and linker make of it: whether it compiles, whether it links   *)
(* with QuadVertexShader, whether `noise` is an active sampler uniform,    *)
(* and the value added to every channel of res (res = [texel +] add).      *)

\* res = texelFetch(noise, ivec2(0), 0) + 1.0
DefaultShader_NoNoise ==
  [syntaxOk |-> TRUE, linkOk |-> TRUE, noise |-> FALSE, add |-> 8]
DefaultShader ==
  [syntaxOk |-> TRUE, linkOk |-> TRUE, noise |-> TRUE, add |-> 4]

\* res = vec4(2.0), no noise declared
ConstShader == [syntaxOk |-> TRUE, linkOk |-> TRUE, noise |-> FALSE, add |-> 8]
\* res = texelFetch(noise, ivec2(0), 0)
NoiseShader == [syntaxOk |-> TRUE, linkOk |-> TRUE, noise |-> TRUE, add |-> 0]
\* res = vec4(1.25), no noise declared
FracShader == [syntaxOk |-> TRUE, linkOk |-> TRUE, noise |-> FALSE, add |-> 5]
\* a text with a syntax error
SyntaxErrorShader == [syntaxOk |-> FALSE, linkOk |-> FALSE, noise |-> FALSE, add |-> 0]
\* compiles alone, does not link with the vertex stage (an unmatched `in`)
LinkErrorShader == [syntaxOk |-> TRUE, linkOk |-> FALSE, noise |-> FALSE, add |-> 0]

\* the texts the editor can hand to onChange
EditorTexts ==
  {DefaultShader, ConstShader, NoiseShader, FracShader, SyntaxErrorShader,
   LinkErrorShader}

\* what the backend may put in the info log of a failed compile or link;
\* the log of a successful one is taken to be ''
CompileLogs == {None, Some(""), Some("ERROR: 0:5: syntax error")}
LinkLogs == {None, Some(""), Some("ERROR: input not written by vertex shader")}
InfoLog(status, log) == IF status THEN Some("") ELSE log

NoiseWidth == 128

RequiredExtensions == {"EXT_color_buffer_float", "OES_texture_float_linear"}

\* the components Math.random() can give texel (0,0), in quarters: [0, 1)
NoiseValues == {0, 3}

-----------------------------------------------------------------------------
(* The WebGL2 context *)

DisabledAttrib == [enabled |-> FALSE, size |-> 4, stride |-> 0, offset |-> 0, buffer |-> 0]

\* a context as getContext('webgl2') returns it for a new 300x150 canvas
FreshContext(id, supported) ==
  [id |-> id,
   supported |-> supported,          \* the extensions getExtension can enable
   extensions |-> {},                \* the extensions enabled so far
   objs |-> {},                      \* live objects: [id, kind]
   nextId |-> 1,
   calls |-> <<>>,                   \* the calls made on this context, in order
   draws |-> <<>>,                   \* the drawArrays calls: [mode, first, count]
   arrayBuffer |-> 0,
   bufferLen |-> <<>>,               \* buffer id -> number of floats
   attribs |-> [i \in 0..2 |-> DisabledAttrib],
   shaders |-> <<>>,                 \* shader id -> [type, compiled, src, log]
   programs |-> <<>>,                \* program id -> [linked, attached, log]
   program |-> 0,                    \* the program in use
   uniformNoise |-> 0,               \* value of the sampler uniform
   textures |-> <<>>,                \* texture id -> [w, h, format, data, gen]
   unit0Tex |-> 0,                   \* TEXTURE_2D binding of unit 0
   samplers |-> <<>>,                \* sampler id -> [min, mag, wrapS, wrapT]
   unit0Sampler |-> 0,
   framebuffers |-> <<>>,            \* framebuffer id -> [color0, drawBuffers]
   framebuffer |-> 0,
   readBuffer |-> "COLOR_ATTACHMENT0",
   viewport |-> <<0, 0, 300, 150>>,
   blend |-> FALSE, cullFace |-> FALSE, depthTest |-> FALSE,
   packAlignment |-> 4, unpackAlignment |-> 4]

\* the value of `gl` when getContext returned null
NullContext == FreshContext(0, {})

Call(g, name) == [g EXCEPT !.calls = Append(@, name)]

\* gl.createX(): a new object of the context; its id is g.nextId
Alloc(g, kind) ==
  [g EXCEPT !.objs = @ \cup {[id |-> g.nextId, kind |-> kind]},
            !.nextId = @ + 1,
            !.calls = Append(@, "create:" \o kind)]

CountCalls(g, name) == Cardinality({i \in 1..Len(g.calls) : g.calls[i] = name})

-----------------------------------------------------------------------------
(* The fixed vertex stage and the quad *)

\* in vec2 vertexPosition; gl_Position = vec4(vertexPosition, 0.0, 1.0)
QuadVertexShader == [syntaxOk |-> TRUE, linkOk |-> TRUE, noise |-> FALSE, add |-> 0]

QuadPositions == <<-1, -1, -1, 1, 1, -1, 1, 1>>

\* function shaderFromSource(gl, type, sourceCode).  created: createShader
\* gave an object; status: COMPILE_STATUS; log: getShaderInfoLog
ShaderFromSource(g, type, sourceCode, created, status, log) ==
  IF ~created
    THEN [gl |-> Call(g, "createShader:null"), res |-> Err("Failed to create shader")]
    ELSE LET shader == g.nextId
             g1 == Alloc(g, "shader")
             g2 == Call(Call(g1, "shaderSource"), "compileShader:" \o type)
             g3 == [g2 EXCEPT !.shaders =
                      (shader :> [type |-> type, compiled |-> status, src |-> sourceCode,
                                  log |-> InfoLog(status, log)]) @@ @]
         IN  IF ~status
               THEN [gl |-> g3, res |-> Err(OrElse(log, "Unknown shader error"))]
               ELSE [gl |-> g3, res |-> Ok(shader)]

\* LINK_STATUS as the backend sets it for the attached shaders
LinkStatus(g, shaders) ==
  \A i \in 1..Len(shaders) :
    g.shaders[shaders[i]].compiled /\ g.shaders[shaders[i]].src.linkOk

\* function createProgram(gl, shaders).  created: createProgram gave an
\* object; log: getProgramInfoLog
CreateProgram(g, shaders, created, log) ==
  IF ~created
    THEN [gl |-> Call(g, "createProgram:null"), res |-> Err("Failed to create program")]
    ELSE LET program == g.nextId
             status == LinkStatus(g, shaders)
             g1 == Alloc(g, "program")
             g2 == [g1 EXCEPT !.calls = @ \o [i \in 1..Len(shaders) |-> "attachShader"]]
             g3 == [Call(g2, "linkProgram") EXCEPT !.programs =
                      (program :> [linked |-> status, attached |-> shaders,
                                   log |-> InfoLog(status, log)]) @@ @]
         IN  IF ~status
               THEN [gl |-> g3, res |-> Err(OrElse(log, "Unknown linking error"))]
               ELSE [gl |-> g3, res |-> Ok(program)]

\* TriangleStripMesh.quad(gl): the field initialiser creates the buffer,
\* the constructor binds it, uploads the positions and counts the vertices
TriangleStripMeshQuad(g) ==
  LET positionsBuffer == g.nextId
      g1 == Alloc(g, "buffer")
      g2 == [Call(Call(g1, "bindBuffer"), "bufferData") EXCEPT
               !.arrayBuffer = positionsBuffer,
               !.bufferLen = (positionsBuffer :> Len(QuadPositions)) @@ @]
  IN  [gl |-> g2,
       mesh |-> [positionsBuffer |-> positionsBuffer,
                 nVertices |-> Len(QuadPositions) \div 2]]

\* TriangleStripMesh.bind()
MeshBind_KeepOthers(g, mesh) ==
  [Call(g, "bind") EXCEPT
     !.arrayBuffer = mesh.positionsBuffer,
     !.attribs[0] = [enabled |-> TRUE, size |-> 2, stride |-> 0, offset |-> 0,
                     buffer |-> mesh.positionsBuffer]]
MeshBind(g, mesh) ==
  [Call(g, "bind") EXCEPT
     !.arrayBuffer = mesh.positionsBuffer,
     !.attribs = [i \in 0..2 |->
        IF i = 0
          THEN [enabled |-> TRUE, size |-> 2, stride |-> 0, offset |-> 0,
                buffer |-> mesh.positionsBuffer]
          ELSE [@[i] EXCEPT !.enabled = FALSE]]]

-----------------------------------------------------------------------------
(* What the backend does with a draw and a readback *)

FragmentSource(g, p) ==
  LET a == g.programs[p].attached
      f == CHOOSE i \in 1..Len(a) : g.shaders[a[i]].type = "fragment"
  IN  g.shaders[a[f]].src

\* the texture color attachment 0 of the bound framebuffer, 0 if none
ColorTarget(g) ==
  IF g.framebuffer = 0 THEN 0 ELSE g.framebuffers[g.framebuffer].color0

\* a texture without mipmaps is complete only under a non-mipmap min filter
Unit0Complete(g) ==
  /\ g.unit0Tex # 0
  /\ g.unit0Sampler # 0
  /\ g.samplers[g.unit0Sampler].min \in {"NEAREST", "LINEAR"}

\* what texelFetch(noise, ivec2(0), 0) can return: the texel of the texture
\* on the unit the uniform names; (0,0,0,1) for an incomplete texture;
\* anything when the texture is the one being rendered to (feedback loop)
SampledTexels(g) ==
  IF g.uniformNoise # 0 \/ ~Unit0Complete(g) THEN {<<0, 0, 0, 4>>}
  ELSE IF g.unit0Tex = ColorTarget(g) THEN [1..4 -> NoiseValues]
  ELSE {g.textures[g.unit0Tex].data}

\* the draw reaches pixel (0,0) of the colour target.  The strip is wound
\* clockwise, so culling removes it; blending on a float target without
\* EXT_float_blend is an INVALID_OPERATION and draws nothing.
DrawReachesTarget(g, count) ==
  /\ g.program # 0 /\ g.programs[g.program].linked
  /\ ColorTarget(g) # 0
  /\ g.framebuffers[g.framebuffer].drawBuffers = <<"COLOR_ATTACHMENT0">>
  /\ g.attribs[0].enabled /\ g.attribs[0].buffer # 0 /\ g.attribs[0].size = 2
  /\ ~g.attribs[1].enabled /\ ~g.attribs[2].enabled
  /\ count = 4
  /\ ~g.cullFace /\ ~g.blend
  /\ g.viewport[1] <= 0 /\ g.viewport[2] <= 0
  /\ g.viewport[1] + g.viewport[3] >= 1 /\ g.viewport[2] + g.viewport[4] >= 1

\* gl.drawArrays(gl.TRIANGLE_STRIP, 0, count) with the sampled texel t
DrawArrays(g, count, t) ==
  LET g1 == [Call(g, "drawArrays") EXCEPT !.draws =
               Append(@, [mode |-> "TRIANGLE_STRIP", first |-> 0, count |-> count])]
  IN  IF ~DrawReachesTarget(g, count) THEN g1
      ELSE LET src == FragmentSource(g, g.program)
               out == [c \in 1..4 |-> (IF src.noise THEN t[c] ELSE 0) + src.add]
           IN  [g1 EXCEPT !.textures[ColorTarget(g)].data = out]

\* gl.readPixels(0, 0, 1, 1, gl.RGBA, gl.FLOAT, data): the new contents of data
ReadPixels(g, data) ==
  IF ColorTarget(g) # 0 /\ g.readBuffer = "COLOR_ATTACHMENT0"
    THEN g.textures[ColorTarget(g)].data
    ELSE data

\* gl.getExtension(name): the context with the extension enabled, if it has it
GetExtension(g, name) ==
  IF name \in g.supported
    THEN [Call(g, "getExtension") EXCEPT !.extensions = @ \cup {name}]
    ELSE Call(g, "getExtension")

\* lines 111-124 of run(): the 1x1 RGBA32F target, its framebuffer, the
\* fixed-function state, and useProgram
SetupTarget_NoViewport(g, prog) ==
  LET outputTex == g.nextId
      g1 == Call(Call(Alloc(g, "texture"), "bindTexture"), "texImage2D")
      g2 == [g1 EXCEPT !.unit0Tex = outputTex,
                       !.textures = (outputTex :>
                          [w |-> 1, h |-> 1, format |-> "RGBA32F",
                           data |-> <<0, 0, 0, 0>>, gen |-> 0]) @@ @]
      fb == g2.nextId
      g3 == Call(Call(Call(Call(Call(Alloc(g2, "framebuffer"),
              "pixelStorei"), "bindFramebuffer"), "viewport"),
              "framebufferTexture2D"), "drawBuffers")
      g4 == [g3 EXCEPT !.packAlignment = 4, !.unpackAlignment = 4,
                       !.framebuffer = fb,
                       !.framebuffers = (fb :>
                          [color0 |-> outputTex,
                           drawBuffers |-> <<"COLOR_ATTACHMENT0">>]) @@ @]
      g5 == [Call(Call(g4, "disable"), "useProgram") EXCEPT
                       !.blend = FALSE, !.cullFace = FALSE, !.depthTest = FALSE,
                       !.program = prog]
  IN  g5
SetupTarget(g, prog) ==
  LET outputTex == g.nextId
      g1 == Call(Call(Alloc(g, "texture"), "bindTexture"), "texImage2D")
      g2 == [g1 EXCEPT !.unit0Tex = outputTex,
                       !.textures = (outputTex :>
                          [w |-> 1, h |-> 1, format |-> "RGBA32F",
                           data |-> <<0, 0, 0, 0>>, gen |-> 0]) @@ @]
      fb == g2.nextId
      g3 == Call(Call(Call(Call(Call(Alloc(g2, "framebuffer"),
              "pixelStorei"), "bindFramebuffer"), "viewport"),
              "framebufferTexture2D"), "drawBuffers")
      g4 == [g3 EXCEPT !.packAlignment = 4, !.unpackAlignment = 4,
                       !.framebuffer = fb,
                       !.viewport = <<0, 0, 1, 1>>,
                       !.framebuffers = (fb :>
                          [color0 |-> outputTex,
                           drawBuffers |-> <<"COLOR_ATTACHMENT0">>]) @@ @]
      g5 == [Call(Call(g4, "disable"), "useProgram") EXCEPT
                       !.blend = FALSE, !.cullFace = FALSE, !.depthTest = FALSE,
                       !.program = prog]
  IN  g5

\* gl.getUniformLocation(program, 'noise') is not null
HasNoiseUniform_Always(g, prog) == TRUE
HasNoiseUniform(g, prog) == FragmentSource(g, prog).noise

\* lines 126-138 of run(): the noise texture and its sampler on unit 0
BindNoise_NoBindTexture(g, prog, noiseData, gen) ==
  LET g0 == Call(g, "getUniformLocation")
  IN  IF ~HasNoiseUniform(g, prog) THEN g0
      ELSE LET noiseTex == g0.nextId
               g1 == Call(Call(Call(Alloc(g0, "texture"),
                       "bindTexture"), "texImage2D"), "uniform1i")
               g2 == [g1 EXCEPT !.uniformNoise = 0,
                                !.textures = (g.unit0Tex :>
                                   [w |-> NoiseWidth, h |-> NoiseWidth, format |-> "RGBA32F",
                                    data |-> noiseData, gen |-> gen]) @@ @]
               nearestSampler == g2.nextId
               g3 == Call(Call(Alloc(g2, "sampler"), "samplerParameteri"), "bindSampler")
           IN  [g3 EXCEPT !.unit0Sampler = nearestSampler,
                          !.samplers = (nearestSampler :>
                             [min |-> "NEAREST", mag |-> "NEAREST",
                              wrapS |-> "REPEAT", wrapT |-> "REPEAT"]) @@ @]
BindNoise(g, prog, noiseData, gen) ==
  LET g0 == Call(g, "getUniformLocation")
  IN  IF ~HasNoiseUniform(g, prog) THEN g0
      ELSE LET noiseTex == g0.nextId
               g1 == Call(Call(Call(Alloc(g0, "texture"),
                       "bindTexture"), "texImage2D"), "uniform1i")
               g2 == [g1 EXCEPT !.unit0Tex = noiseTex,
                                !.uniformNoise = 0,
                                !.textures = (noiseTex :>
                                   [w |-> NoiseWidth, h |-> NoiseWidth, format |-> "RGBA32F",
                                    data |-> noiseData, gen |-> gen]) @@ @]
               nearestSampler == g2.nextId
               g3 == Call(Call(Alloc(g2, "sampler"), "samplerParameteri"), "bindSampler")
           IN  [g3 EXCEPT !.unit0Sampler = nearestSampler,
                          !.samplers = (nearestSampler :>
                             [min |-> "NEAREST", mag |-> "NEAREST",
                              wrapS |-> "REPEAT", wrapT |-> "REPEAT"]) @@ @]

-----------------------------------------------------------------------------
(* State *)

VARIABLES
  shader,          \* App: the shader state (the editor's text)
  result,          \* App: the result state, shown in the Result div
  effectPending,   \* App: the effect of [shader] is due to run
  NoiseData,       \* texel (0,0) of the module-level noise array
  noiseGen,        \* how many times the noise array has been filled
  pc,              \* where run() stands; "idle" outside a run
  runs,            \* number of calls of run() so far
  runShader,       \* run: the parameter `shader`
  canvasRemoved,   \* run: canvas.remove() was called
  gl,              \* run: the context (it stays behind after the run)
  quad, vs, fs, program, data, ret,   \* run: locals and the return value
  usedContexts,    \* ids of the contexts earlier runs worked on
  noiseUploads,    \* the noise uploads so far: [run, gen]
  changes,         \* number of onChange events that changed the shader state
  shown            \* where `result` comes from: [run, shader]; run 0 is ''

appVars == <<shader, result, effectPending>>
noiseVars == <<NoiseData, noiseGen>>
histVars == <<usedContexts, noiseUploads>>
editVars == <<changes, shown>>
localVars == <<quad, vs, fs, program, data>>
vars == <<shader, result, effectPending, NoiseData, noiseGen, pc, runs, runShader,
          canvasRemoved, gl, quad, vs, fs, program, data, ret, usedContexts,
          noiseUploads, changes, shown>>

NoMesh == [positionsBuffer |-> 0, nVertices |-> 0]
NoData == <<>>

\* module load fills NoiseData once; App mounts with DefaultShader and ''
Init ==
  /\ shader = DefaultShader
  /\ result = ""
  /\ effectPending = TRUE
  /\ NoiseData \in [1..4 -> NoiseValues]
  /\ noiseGen = 1
  /\ pc = "idle"
  /\ runs = 0
  /\ runShader = DefaultShader
  /\ canvasRemoved = FALSE
  /\ gl = NullContext
  /\ quad = NoMesh /\ vs = NoResult /\ fs = NoResult /\ program = NoResult
  /\ data = NoData /\ ret = ""
  /\ usedContexts = {}
  /\ noiseUploads = {}
  /\ changes = 0
  /\ shown = [run |-> 0, shader |-> DefaultShader]

\* `return msg` inside run()
Return(msg) == pc' = "returned" /\ ret' = msg

-----------------------------------------------------------------------------
(* run(shader), statement by statement *)

\* canvas.getContext('webgl2') on the canvas run() has just created
CanvasGetContext_Shared(prev, used, supported) ==
  IF prev.id # 0 THEN [prev EXCEPT !.supported = supported]
                 ELSE FreshContext(Cardinality(used) + 1, supported)
CanvasGetContext(prev, used, supported) ==
  FreshContext(Cardinality(used) + 1, supported)

\* the effect calls run(shader): lines 86-91
GetContext ==
  /\ pc = "idle" /\ effectPending
  /\ effectPending' = FALSE
  /\ runs' = runs + 1
  /\ runShader' = shader
  /\ canvasRemoved' = FALSE
  /\ \E available \in BOOLEAN, supported \in SUBSET RequiredExtensions :
       IF ~available
         THEN gl' = NullContext /\ Return("WebGL2 not available")
         ELSE /\ gl' = CanvasGetContext(gl, usedContexts, supported)
              /\ pc' = "ext1" /\ ret' = ""
  /\ UNCHANGED <<shader, result, noiseVars, editVars, localVars, histVars>>

\* lines 92-94
CheckColorBufferFloat ==
  /\ pc = "ext1"
  /\ gl' = GetExtension(gl, "EXT_color_buffer_float")
  /\ IF "EXT_color_buffer_float" \notin gl'.extensions
       THEN Return("Missing: EXT_color_buffer_float")
       ELSE pc' = "ext2" /\ UNCHANGED ret
  /\ UNCHANGED <<appVars, noiseVars, editVars, runs, runShader, canvasRemoved, localVars, histVars>>

\* lines 95-97
CheckTextureFloatLinear_NoAbort ==
  /\ pc = "ext2"
  /\ gl' = GetExtension(gl, "OES_texture_float_linear")
  /\ pc' = "quad" /\ UNCHANGED ret
  /\ UNCHANGED <<appVars, noiseVars, editVars, runs, runShader, canvasRemoved, localVars, histVars>>
CheckTextureFloatLinear ==
  /\ pc = "ext2"
  /\ gl' = GetExtension(gl, "OES_texture_float_linear")
  /\ IF "OES_texture_float_linear" \notin gl'.extensions
       THEN Return("Missing: OES_texture_float_linear")
       ELSE pc' = "quad" /\ UNCHANGED ret
  /\ UNCHANGED <<appVars, noiseVars, editVars, runs, runShader, canvasRemoved, localVars, histVars>>

\* line 98
Quad ==
  /\ pc = "quad"
  /\ LET r == TriangleStripMeshQuad(gl)
     IN  gl' = r.gl /\ quad' = r.mesh
  /\ pc' = "vs"
  /\ UNCHANGED <<appVars, noiseVars, editVars, runs, runShader, canvasRemoved, vs, fs, program,
                 data, ret, histVars>>

\* line 99
CompileVertex_ShortCircuit ==
  /\ pc = "vs"
  /\ \E created \in BOOLEAN, status \in BOOLEAN, log \in CompileLogs :
       LET r == ShaderFromSource(gl, "vertex", QuadVertexShader, created, status, log)
       IN  /\ gl' = r.gl /\ vs' = r.res
           /\ IF r.res.result = "err" THEN Return(r.res.message)
                                      ELSE pc' = "fs" /\ UNCHANGED ret
  /\ UNCHANGED <<appVars, noiseVars, editVars, runs, runShader, canvasRemoved, quad, fs, program,
                 data, histVars>>
CompileVertex ==
  /\ pc = "vs"
  /\ \E created \in BOOLEAN, status \in BOOLEAN, log \in CompileLogs :
       LET r == ShaderFromSource(gl, "vertex", QuadVertexShader, created, status, log)
       IN  gl' = r.gl /\ vs' = r.res
  /\ pc' = "fs"
  /\ UNCHANGED <<appVars, noiseVars, editVars, runs, runShader, canvasRemoved, quad, fs, program,
                 data, ret, histVars>>

\* line 100
CompileFragment ==
  /\ pc = "fs"
  /\ \E created \in BOOLEAN, log \in CompileLogs :
       LET r == ShaderFromSource(gl, "fragment", runShader, created,
                                 runShader.syntaxOk, log)
       IN  gl' = r.gl /\ fs' = r.res
  /\ pc' = "checkVs"
  /\ UNCHANGED <<appVars, noiseVars, editVars, runs, runShader, canvasRemoved, quad, vs, program,
                 data, ret, histVars>>

\* lines 101-103
CheckVs_FragmentFirst ==
  /\ pc = "checkVs"
  /\ IF fs.result = "err" THEN Return(fs.message)
     ELSE IF vs.result = "err" THEN Return(vs.message)
     ELSE pc' = "checkFs" /\ UNCHANGED ret
  /\ UNCHANGED <<appVars, noiseVars, editVars, runs, runShader, canvasRemoved, gl, localVars,
                 histVars>>
CheckVs ==
  /\ pc = "checkVs"
  /\ IF vs.result = "err" THEN Return(vs.message)
                          ELSE pc' = "checkFs" /\ UNCHANGED ret
  /\ UNCHANGED <<appVars, noiseVars, editVars, runs, runShader, canvasRemoved, gl, localVars,
                 histVars>>

\* lines 104-106
CheckFs ==
  /\ pc = "checkFs"
  /\ IF fs.result = "err" THEN Return(fs.message)
                          ELSE pc' = "link" /\ UNCHANGED ret
  /\ UNCHANGED <<appVars, noiseVars, editVars, runs, runShader, canvasRemoved, gl, localVars,
                 histVars>>

\* lines 107-110
Link_NoAbort ==
  /\ pc = "link"
  /\ \E created \in BOOLEAN, log \in LinkLogs :
       LET r == CreateProgram(gl, <<vs.value, fs.value>>, created, log)
       IN  /\ gl' = r.gl
           /\ program' = IF created THEN Ok(gl.nextId) ELSE r.res
           /\ IF ~created THEN Return(r.res.message)
                           ELSE pc' = "target" /\ UNCHANGED ret
  /\ UNCHANGED <<appVars, noiseVars, editVars, runs, runShader, canvasRemoved, quad, vs, fs,
                 data, histVars>>
Link ==
  /\ pc = "link"
  /\ \E created \in BOOLEAN, log \in LinkLogs :
       LET r == CreateProgram(gl, <<vs.value, fs.value>>, created, log)
       IN  /\ gl' = r.gl /\ program' = r.res
           /\ IF r.res.result = "err" THEN Return(r.res.message)
                                      ELSE pc' = "target" /\ UNCHANGED ret
  /\ UNCHANGED <<appVars, noiseVars, editVars, runs, runShader, canvasRemoved, quad, vs, fs,
                 data, histVars>>

\* lines 111-124
Target ==
  /\ pc = "target"
  /\ gl' = SetupTarget(gl, program.value)
  /\ pc' = "noise"
  /\ UNCHANGED <<appVars, noiseVars, editVars, runs, runShader, canvasRemoved, localVars, ret,
                 histVars>>

\* lines 126-138
Noise ==
  /\ pc = "noise"
  /\ gl' = BindNoise(gl, program.value, NoiseData, noiseGen)
  /\ noiseUploads' = IF HasNoiseUniform(gl, program.value)
                       THEN noiseUploads \cup {[run |-> runs, gen |-> noiseGen]}
                       ELSE noiseUploads
  /\ pc' = "bind"
  /\ UNCHANGED <<appVars, noiseVars, editVars, runs, runShader, canvasRemoved, localVars, ret,
                 usedContexts>>

\* line 140
QuadBind_SkipDraw ==
  /\ pc = "bind"
  /\ gl' = MeshBind(gl, quad)
  /\ pc' = "read"
  /\ UNCHANGED <<appVars, noiseVars, editVars, runs, runShader, canvasRemoved, localVars, ret,
                 histVars>>
QuadBind ==
  /\ pc = "bind"
  /\ gl' = MeshBind(gl, quad)
  /\ pc' = "draw"
  /\ UNCHANGED <<appVars, noiseVars, editVars, runs, runShader, canvasRemoved, localVars, ret,
                 histVars>>

\* line 141
QuadDraw ==
  /\ pc = "draw"
  /\ \E t \in SampledTexels(gl) : gl' = DrawArrays(gl, quad.nVertices, t)
  /\ pc' = "read"
  /\ UNCHANGED <<appVars, noiseVars, editVars, runs, runShader, canvasRemoved, localVars, ret,
                 histVars>>

\* lines 142-144
Readback ==
  /\ pc = "read"
  /\ gl' = [Call(Call(gl, "readBuffer"), "readPixels") EXCEPT
              !.readBuffer = "COLOR_ATTACHMENT0"]
  /\ data' = ReadPixels(gl', <<0, 0, 0, 0>>)
  /\ pc' = "format"
  /\ UNCHANGED <<appVars, noiseVars, editVars, runs, runShader, canvasRemoved, quad, vs, fs,
                 program, ret, histVars>>

\* lines 145-147
Finish_FirstChannelOnly ==
  /\ pc = "format"
  /\ canvasRemoved' = TRUE
  /\ Return(NumToString(data[1]))
  /\ UNCHANGED <<appVars, noiseVars, editVars, runs, runShader, gl, localVars, histVars>>
Finish ==
  /\ pc = "format"
  /\ canvasRemoved' = TRUE
  /\ Return(FormatResult(data))
  /\ UNCHANGED <<appVars, noiseVars, editVars, runs, runShader, gl, localVars, histVars>>

-----------------------------------------------------------------------------
(* The App component *)

\* setResult(run(shader)): line 164, once run has returned
SetResult ==
  /\ pc = "returned"
  /\ result' = ret
  /\ pc' = "idle"
  /\ ret' = ""
  /\ quad' = NoMesh /\ vs' = NoResult /\ fs' = NoResult /\ program' = NoResult
  /\ data' = NoData
  /\ usedContexts' = IF gl.id # 0 THEN usedContexts \cup {gl.id} ELSE usedContexts
  /\ shown' = [run |-> runs, shader |-> runShader]
  /\ UNCHANGED <<shader, effectPending, noiseVars, runs, runShader, canvasRemoved, gl,
                 noiseUploads, changes>>

\* onChange={setShader}: line 171; the effect is due when the text changed.
\* React flushes a due effect before it renders the next update, so an
\* edit is taken up only when no effect is due.
OnChange_EffectOnce ==
  /\ pc = "idle" /\ ~effectPending
  /\ runs < MaxRuns
  /\ \E s \in EditorTexts :
       /\ shader' = s
       /\ changes' = IF s # shader THEN changes + 1 ELSE changes
  /\ UNCHANGED <<result, effectPending, noiseVars, pc, runs, runShader, canvasRemoved,
                 gl, localVars, ret, histVars, shown>>
OnChange ==
  /\ pc = "idle" /\ ~effectPending
  /\ runs < MaxRuns
  /\ \E s \in EditorTexts :
       /\ shader' = s
       /\ effectPending' = (s # shader)
       /\ changes' = IF s # shader THEN changes + 1 ELSE changes
  /\ UNCHANGED <<result, noiseVars, pc, runs, runShader, canvasRemoved, gl, localVars,
                 ret, histVars, shown>>

Next ==
  \/ GetContext \/ CheckColorBufferFloat \/ CheckTextureFloatLinear \/ Quad
  \/ CompileVertex \/ CompileFragment \/ CheckVs \/ CheckFs \/ Link \/ Target
  \/ Noise \/ QuadBind \/ QuadDraw \/ Readback \/ Finish \/ SetResult \/ OnChange

Spec == Init /\ [][Next]_vars

\* run() is synchronous and React runs a due effect: every step but the
\* user's edit is taken once it can be
RunStep ==
  \/ GetContext \/ CheckColorBufferFloat \/ CheckTextureFloatLinear \/ Quad
  \/ CompileVertex \/ CompileFragment \/ CheckVs \/ CheckFs \/ Link \/ Target
  \/ Noise \/ QuadBind \/ QuadDraw \/ Readback \/ Finish \/ SetResult

FairSpec == Spec /\ WF_vars(RunStep)

-----------------------------------------------------------------------------
(* TriangleStripMesh on its own: bind() and draw() of a quad built on a    *)
(* context whose attribute slots and ARRAY_BUFFER binding are in any state *)

AttribStates ==
  [enabled : BOOLEAN, size : {2, 4}, stride : {0, 8}, offset : {0}, buffer : {0, 1}]

MeshInit ==
  /\ shader = DefaultShader /\ result = "" /\ effectPending = FALSE
  /\ NoiseData = <<0, 0, 0, 0>> /\ noiseGen = 1
  /\ pc = "bind" /\ runs = 1 /\ runShader = DefaultShader
  /\ canvasRemoved = FALSE
  /\ \E a \in [0..2 -> AttribStates], b \in {0, 1} :
       LET r == TriangleStripMeshQuad(FreshContext(1, RequiredExtensions))
       IN  /\ gl = [r.gl EXCEPT !.attribs = a, !.arrayBuffer = b]
           /\ quad = r.mesh
  /\ vs = NoResult /\ fs = NoResult /\ program = NoResult
  /\ data = NoData /\ ret = ""
  /\ usedContexts = {} /\ noiseUploads = {}
  /\ changes = 0 /\ shown = [run |-> 0, shader |-> DefaultShader]

MeshNext == QuadBind \/ QuadDraw

MeshSpec == MeshInit /\ [][MeshNext]_vars

TypeOK ==
  /\ pc \in {"idle", "ext1", "ext2", "quad", "vs", "fs", "checkVs", "checkFs", "link",
             "target", "noise", "bind", "draw", "read", "format", "returned"}
  /\ runs \in 0..MaxRuns
  /\ shader \in EditorTexts /\ runShader \in EditorTexts
  /\ effectPending \in BOOLEAN /\ canvasRemoved \in BOOLEAN

-----------------------------------------------------------------------------
(* Properties *)

CompileCalls(g) ==
  CountCalls(g, "compileShader:vertex") + CountCalls(g, "compileShader:fragment")

\* the calls of link, program activation, target setup, draw and readback
LaterCalls ==
  {"linkProgram", "useProgram", "create:texture", "create:framebuffer",
   "bindFramebuffer", "drawArrays", "readPixels"}
NoCallsOf(g, names) == \A i \in 1..Len(g.calls) : g.calls[i] \notin names

FirstMissing(g) ==
  IF "EXT_color_buffer_float" \notin g.supported
    THEN "EXT_color_buffer_float" ELSE "OES_texture_float_linear"

\* a shader object of the stage exists and its COMPILE_STATUS is false
CompileFailed(g, type) ==
  \E id \in DOMAIN g.shaders : g.shaders[id].type = type /\ ~g.shaders[id].compiled

\* run() got past the link
Linked == program.result = "ok"

\* C1: a context that lacks a required extension never sees a shader
\* compilation nor the creation of any object, and once both checks are
\* behind, the run has returned 'Missing: <name>' for the first missing one.
C1_MissingExtensionAbortsFirst ==
  (gl.id # 0 /\ ~(RequiredExtensions \subseteq gl.supported)) =>
     /\ CompileCalls(gl) = 0
     /\ gl.objs = {} /\ gl.nextId = 1
     /\ NoCallsOf(gl, {"create:buffer", "create:shader", "create:program",
                       "create:texture", "create:framebuffer", "create:sampler"})
     /\ pc \in {"ext1", "ext2", "returned", "idle"}
     /\ pc = "ext2" => "EXT_color_buffer_float" \in gl.supported
     /\ pc = "returned" => ret = "Missing: " \o FirstMissing(gl)
     /\ pc = "idle" => result = "Missing: " \o FirstMissing(gl)

C1_Witness ==
  /\ pc = "returned"
  /\ gl.supported = {"EXT_color_buffer_float"}
  /\ ret = "Missing: OES_texture_float_linear"
  /\ gl.calls = <<"getExtension", "getExtension">>

\* C2 as stated: after a failed vertex compile no compile of the fragment
\* source happens.
C2_NoFragmentCompileAfterVertexFailure ==
  CompileFailed(gl, "vertex") => CountCalls(gl, "compileShader:fragment") = 0

\* C2 amended: run() compiles both stages before it looks at either result.
\* When the vertex stage failed to compile, the fragment source has still
\* been handed to the compiler (unless no shader object could be created)
\* by the time run() returns, the vertex diagnostic is what it returns, and
\* no link is attempted.
C2_BothStagesCompiledThenVertexReported ==
  (pc = "returned" /\ CompileFailed(gl, "vertex")) =>
     /\ \/ CountCalls(gl, "compileShader:fragment") = 1
        \/ fs = Err("Failed to create shader")
     /\ fs.result # "none"
     /\ ret = vs.message
     /\ NoCallsOf(gl, LaterCalls \cup {"create:program"})

C2_Witness ==
  /\ pc = "returned"
  /\ CompileFailed(gl, "vertex")
  /\ CountCalls(gl, "compileShader:fragment") = 1
  /\ gl.calls[Len(gl.calls)] = "compileShader:fragment"
  /\ ret = vs.message

\* C3: when run() returns, every object it created on its context has been
\* released, or the canvas holding the context has been disposed of.
C3_ObjectsReleasedOnEveryExit ==
  pc = "returned" => (gl.objs = {} \/ canvasRemoved)

\* C4: no two runs upload noise data of the same generation.
C4_NoiseFreshPerRun ==
  \A a \in noiseUploads, b \in noiseUploads : a.run # b.run => a.gen # b.gen

\* C5 as stated: the run of the text the App starts with binds neither noise
\* texture nor sampler and returns "2, 2, 2, 2".
C5_DefaultShaderIsConstantTwo ==
  (pc = "returned" /\ runs = 1 /\ Linked) =>
     /\ ret = "2, 2, 2, 2"
     /\ NoCallsOf(gl, {"create:sampler", "bindSampler", "uniform1i"})

\* C5 amended: the text the App starts with declares `noise` and writes
\* texel (0,0) of it plus 1.0; its run binds the noise texture and the
\* sampler and returns the four noise components, each increased by 1.
\* A text without `noise` that writes vec4(2.0) binds nothing optional and
\* returns exactly "2, 2, 2, 2".
C5_DefaultShaderReadsNoise ==
  /\ (runs = 1 /\ pc # "idle") => runShader = DefaultShader
  /\ (pc = "returned" /\ Linked /\ runs = 1) =>
        /\ CountCalls(gl, "create:sampler") = 1
        /\ CountCalls(gl, "bindSampler") = 1
        /\ CountCalls(gl, "create:texture") = 2
        /\ ret = FormatResult([c \in 1..4 |-> NoiseData[c] + 4])
        /\ NoiseData = <<0, 0, 0, 0>> => ret = "1, 1, 1, 1"
        /\ NoiseData = <<3, 0, 3, 0>> => ret = "1.75, 1, 1.75, 1"
        /\ ret # "2, 2, 2, 2"
  /\ (pc = "returned" /\ Linked /\ runShader = ConstShader) =>
        /\ NoCallsOf(gl, {"create:sampler", "bindSampler", "uniform1i"})
        /\ CountCalls(gl, "create:texture") = 1
        /\ ret = "2, 2, 2, 2"

C5_Witness ==
  /\ pc = "returned" /\ Linked /\ runs = 1
  /\ NoiseData = <<3, 0, 3, 0>>
  /\ ret = "1.75, 1, 1.75, 1"
  /\ gl.unit0Sampler # 0

\* C6: when both stages failed, run() returns the vertex diagnostic; it
\* returns the fragment diagnostic when only the fragment stage failed; and
\* either way nothing of link, target setup, draw or readback is called.
C6_VertexDiagnosticFirst ==
  (pc = "returned" /\ gl.id # 0 /\ (vs.result = "err" \/ fs.result = "err")) =>
     /\ vs.result = "err" => ret = vs.message
     /\ (vs.result = "ok" /\ fs.result = "err") => ret = fs.message
     /\ NoCallsOf(gl, LaterCalls \cup {"create:program"})
     /\ program = NoResult

C6_Witness ==
  /\ pc = "returned"
  /\ CompileFailed(gl, "vertex") /\ CompileFailed(gl, "fragment")
  /\ vs.message # fs.message
  /\ ret = vs.message

\* the message shaderFromSource / createProgram must give for an info log
IsMessageFor(message, log, fallback) ==
  /\ log \in {None, Some("")} => message = fallback
  /\ log \notin {None, Some("")} => log = Some(message)
  /\ message # ""

\* the Result run() holds for a stage
StageResult(type) == IF type = "vertex" THEN vs ELSE fs

\* C7: for every shader object whose compilation failed, shaderFromSource
\* returned an error whose message is the object's info log when that is a
\* non-empty string and 'Unknown shader error' when it is '' or null; the
\* message is never empty.
C7_CompileErrorMessage ==
  pc # "idle" =>
    \A id \in DOMAIN gl.shaders :
      ~gl.shaders[id].compiled =>
         /\ StageResult(gl.shaders[id].type).result = "err"
         /\ IsMessageFor(StageResult(gl.shaders[id].type).message,
                         gl.shaders[id].log, "Unknown shader error")

C7_Witness ==
  /\ pc = "returned"
  /\ runShader = SyntaxErrorShader
  /\ vs.result = "ok"
  /\ CompileFailed(gl, "fragment")
  /\ \E id \in DOMAIN gl.shaders : gl.shaders[id].log = Some("")
  /\ ret = "Unknown shader error"

\* C8: for every program object whose link failed, createProgram returned
\* an error whose message is the link log when non-empty and 'Unknown
\* linking error' otherwise, and run() has returned that message without
\* useProgram, target setup, draw or readback.
C8_LinkErrorAborts ==
  pc # "idle" =>
    \A id \in DOMAIN gl.programs :
      ~gl.programs[id].linked =>
         /\ program.result = "err"
         /\ IsMessageFor(program.message, gl.programs[id].log, "Unknown linking error")
         /\ pc = "returned"
         /\ ret = program.message
         /\ NoCallsOf(gl, LaterCalls \ {"linkProgram"})
         /\ gl.program = 0 /\ gl.framebuffer = 0 /\ gl.unit0Tex = 0

C8_Witness ==
  /\ pc = "returned"
  /\ runShader = LinkErrorShader
  /\ \E id \in DOMAIN gl.programs :
        gl.programs[id].log = Some("ERROR: input not written by vertex shader")
  /\ ret = "ERROR: input not written by vertex shader"
  /\ CountCalls(gl, "linkProgram") = 1

\* the textures and samplers of the context
ObjectsOfKind(g, kind) == {o \in g.objs : o.kind = kind}

\* C9: once run() is past the optional-resource step, the program has an
\* active `noise` uniform exactly when a 128x128 texture holding NoiseData
\* is bound to unit 0 together with a NEAREST/REPEAT sampler and the
\* uniform names unit 0; without the uniform the step has created neither
\* texture nor sampler and unit 0 still holds the render target, with no
\* sampler bound.
C9_NoiseBoundIffDeclared ==
  (pc \in {"bind", "draw", "read", "format"} \/ (pc = "returned" /\ Linked)) =>
    LET declared == FragmentSource(gl, program.value).noise
        bound == /\ gl.unit0Tex # 0 /\ gl.unit0Tex # ColorTarget(gl)
                 /\ gl.textures[gl.unit0Tex].w = NoiseWidth
                 /\ gl.textures[gl.unit0Tex].h = NoiseWidth
                 /\ gl.textures[gl.unit0Tex].data = NoiseData
                 /\ gl.uniformNoise = 0
                 /\ gl.unit0Sampler # 0
                 /\ gl.samplers[gl.unit0Sampler] =
                      [min |-> "NEAREST", mag |-> "NEAREST",
                       wrapS |-> "REPEAT", wrapT |-> "REPEAT"]
                 /\ Cardinality(ObjectsOfKind(gl, "texture")) = 2
                 /\ Cardinality(ObjectsOfKind(gl, "sampler")) = 1
        untouched == /\ gl.unit0Tex = ColorTarget(gl)
                     /\ gl.unit0Sampler = 0
                     /\ Cardinality(ObjectsOfKind(gl, "texture")) = 1
                     /\ ObjectsOfKind(gl, "sampler") = {}
                     /\ NoCallsOf(gl, {"uniform1i", "bindSampler", "samplerParameteri"})
    IN  /\ declared <=> bound
        /\ ~declared <=> untouched
        /\ declared = runShader.noise

C9_Witness ==
  /\ pc = "bind"
  /\ runShader = NoiseShader
  /\ gl.unit0Sampler # 0
  /\ gl.textures[gl.unit0Tex].w = NoiseWidth
  /\ gl.calls[Len(gl.calls)] = "bindSampler"

\* C10: every run works on a context no earlier run worked on, the context
\* is in its initial state when the run receives it (no attribute enabled,
\* no texture, sampler, framebuffer or program bound, no object alive),
\* and the result of a linked text that does not read noise is the format
\* of the value the text writes, whatever ran before.
C10_RunsAreIsolated ==
  /\ (pc # "idle" /\ gl.id # 0) => gl.id \notin usedContexts
  /\ pc = "ext1" => gl = FreshContext(gl.id, gl.supported)
  /\ (pc = "returned" /\ Linked /\ ~runShader.noise) =>
        ret = FormatResult([c \in 1..4 |-> runShader.add])
  /\ (pc = "returned" /\ Linked /\ runShader = FracShader) =>
        ret = "1.25, 1.25, 1.25, 1.25"

C10_Witness ==
  /\ pc = "returned" /\ Linked
  /\ runs = 2 /\ usedContexts # {}
  /\ runShader = FracShader
  /\ ret = "1.25, 1.25, 1.25, 1.25"
  /\ result # ret

\* context, capabilities, both stages and the link succeeded
AllSucceeded ==
  /\ gl.id # 0 /\ RequiredExtensions \subseteq gl.supported
  /\ vs.result = "ok" /\ fs.result = "ok" /\ program.result = "ok"

\* run() came to its end: it read the pixel back and removed the canvas
Done == pc = "returned" /\ canvasRemoved /\ CountCalls(gl, "readPixels") = 1
\* run() returned early
Aborted == pc = "returned" /\ ~canvasRemoved /\ CountCalls(gl, "readPixels") = 0

\* the message of the first step that failed, else the format of the pixel
ExpectedReturn ==
  IF gl.id = 0 THEN "WebGL2 not available"
  ELSE IF ~(RequiredExtensions \subseteq gl.supported)
    THEN "Missing: " \o FirstMissing(gl)
  ELSE IF vs.result = "err" THEN vs.message
  ELSE IF fs.result = "err" THEN fs.message
  ELSE IF program.result = "err" THEN program.message
  ELSE FormatResult(gl.textures[ColorTarget(gl)].data)

C11_Outcome ==
  pc = "returned" =>
     /\ Done # Aborted
     /\ Done <=> AllSucceeded
     /\ ret = ExpectedReturn
     /\ Done => /\ Len(data) = 4
                /\ ret = NumToString(data[1]) \o ", " \o NumToString(data[2]) \o ", "
                           \o NumToString(data[3]) \o ", " \o NumToString(data[4])

\* C11: every run reaches its return, there it is either Done or Aborted,
\* never both, Done exactly when context, capabilities, both compiles and
\* the link succeeded; it returns the four channels joined with ", " when
\* Done and otherwise the message of the first failing step in the order
\* context, capabilities, vertex stage, fragment stage, link.
C11_RunTerminatesWithOneResult ==
  /\ []C11_Outcome
  /\ (pc # "idle") ~> (pc = "returned")
  /\ effectPending ~> (pc = "returned")

C11_Witness ==
  /\ Done /\ AllSucceeded
  /\ runShader = NoiseShader
  /\ NoiseData = <<3, 0, 3, 0>>
  /\ ret = "0.75, 0, 0.75, 0"

\* the calls that use the linked program
ProgramUses == {"useProgram", "getUniformLocation", "drawArrays", "readPixels"}

\* some call before the i-th is a call of name
CalledBefore(g, name, i) == \E j \in 1..(i - 1) : g.calls[j] = name

\* C12: every useProgram, getUniformLocation('noise'), draw and readback
\* of a context comes after both compileShader calls and the linkProgram
\* call, all of which succeeded; every readback comes after the draw and
\* no draw after a readback.
C12_ProgramUsedOnlyAfterLink ==
  \A i \in 1..Len(gl.calls) :
    gl.calls[i] \in ProgramUses =>
       /\ CalledBefore(gl, "compileShader:vertex", i)
       /\ CalledBefore(gl, "compileShader:fragment", i)
       /\ CalledBefore(gl, "linkProgram", i)
       /\ \A id \in DOMAIN gl.shaders : gl.shaders[id].compiled
       /\ \A id \in DOMAIN gl.programs : gl.programs[id].linked
       /\ Cardinality(DOMAIN gl.shaders) = 2 /\ Cardinality(DOMAIN gl.programs) = 1
       /\ gl.calls[i] # "useProgram" => CalledBefore(gl, "useProgram", i)
       /\ gl.calls[i] = "readPixels" => CalledBefore(gl, "drawArrays", i)
       /\ gl.calls[i] = "drawArrays" => ~CalledBefore(gl, "readPixels", i)

C12_Witness ==
  /\ pc = "format"
  /\ gl.calls[Len(gl.calls)] = "readPixels"
  /\ CalledBefore(gl, "drawArrays", Len(gl.calls))
  /\ CalledBefore(gl, "linkProgram", Len(gl.calls))
  /\ gl.program # 0 /\ gl.programs[gl.program].linked

\* C13: when run() stands before line 141 (the draw), blending, face
\* culling and depth testing are off, the viewport is (0,0,1,1), pack and
\* unpack alignment are 4, and the bound framebuffer has a 1x1 RGBA32F
\* texture as color attachment 0, which is its only draw buffer.
C13_StateAtDraw ==
  pc = "draw" =>
     /\ ~gl.blend /\ ~gl.cullFace /\ ~gl.depthTest
     /\ gl.viewport = <<0, 0, 1, 1>>
     /\ gl.packAlignment = 4 /\ gl.unpackAlignment = 4
     /\ gl.framebuffer # 0
     /\ ColorTarget(gl) # 0
     /\ gl.textures[ColorTarget(gl)].w = 1 /\ gl.textures[ColorTarget(gl)].h = 1
     /\ gl.textures[ColorTarget(gl)].format = "RGBA32F"
     /\ gl.framebuffers[gl.framebuffer].drawBuffers = <<"COLOR_ATTACHMENT0">>
     /\ DrawReachesTarget(gl, quad.nVertices)

C13_Witness ==
  /\ pc = "draw"
  /\ runShader = ConstShader
  /\ gl.viewport = <<0, 0, 1, 1>>
  /\ gl.calls[Len(gl.calls)] = "bind"
  /\ CountCalls(gl, "disable") = 1

\* C14: after bind(), whatever the slots held before, slot 0 is enabled
\* with 2 floats, stride 0, offset 0 on the quad's buffer, slots 1 and 2
\* are disabled, so exactly one attribute is active; draw() then issues a
\* single TRIANGLE_STRIP draw of 4 vertices from vertex 0.
C14_BindThenDraw ==
  /\ pc \in {"draw", "read"} =>
        /\ gl.attribs[0] = [enabled |-> TRUE, size |-> 2, stride |-> 0, offset |-> 0,
                            buffer |-> quad.positionsBuffer]
        /\ ~gl.attribs[1].enabled /\ ~gl.attribs[2].enabled
        /\ {i \in 0..2 : gl.attribs[i].enabled} = {0}
        /\ gl.arrayBuffer = quad.positionsBuffer
        /\ gl.bufferLen[quad.positionsBuffer] = 8
  /\ pc = "draw" => gl.draws = <<>>
  /\ pc = "read" =>
        gl.draws = <<[mode |-> "TRIANGLE_STRIP", first |-> 0, count |-> 4]>>

C14_Witness ==
  /\ pc = "read"
  /\ Len(gl.draws) = 1 /\ gl.draws[1].count = 4
  /\ gl.attribs[1].stride = 8 /\ gl.attribs[2].buffer = 1
  /\ ~gl.attribs[1].enabled /\ ~gl.attribs[2].enabled

\* the App shows the result of the run on its current text
Settled ==
  /\ pc = "idle" /\ ~effectPending
  /\ shown.run = runs /\ shown.shader = shader

C15_EffectDiscipline ==
  \* once on mount and once per change of the shader state
  /\ runs + (IF effectPending THEN 1 ELSE 0) = 1 + changes
  \* a run is over before an edit or another run can start
  /\ pc # "idle" => (~effectPending /\ runShader = shader)
  \* what is shown comes from the latest finished run
  /\ shown.run = IF pc = "idle" THEN runs ELSE runs - 1
  /\ (pc = "idle" /\ ~effectPending) => Settled
  /\ (pc = "idle" /\ runs = 0) => (effectPending /\ shader = DefaultShader /\ result = "")

\* C15: run is called once on mount with the default text and once after
\* each change of the shader state; no edit and no other run falls inside a
\* run; the result shown always comes from the latest finished run; and
\* whenever an effect is due, the App comes to show the result of a run on
\* its current text.
C15_ResultFollowsShader ==
  /\ []C15_EffectDiscipline
  /\ [][pc = "returned" => (result' = ret /\ shown'.shader = shader)]_vars
  /\ effectPending ~> Settled

C15_Witness ==
  /\ Settled
  /\ runs = 2 /\ changes = 1
  /\ shader = ConstShader
  /\ result = "2, 2, 2, 2"

====
